---- MODULE Spec2Model ----
(***************************************************************************)
(* Model of generate_graphs.py: the loader of spike_results.json, the      *)
(* metrics extractor, the six graph renderers (which draw through          *)
(* matplotlib's pyplot state machine) and the console summary.             *)
(***************************************************************************)
EXTENDS Integers, Sequences, FiniteSets, TLC

VARIABLES
    file,         \* spike_results.json on disk: [kind, doc]
    pc,           \* position of main()
    data,         \* main's `data` / the argument of the function under run
    performance,  \* main's `performance` / the value extract_performance_data returned
    frame,        \* locals of a step-by-step run of extract_performance_data
    world,        \* [plt, files, stdout]: pyplot's figures, the files written, the console
    threads,      \* the renderer runs in flight: renderer name -> its locals
    overlapped    \* history: some renderer started while another was in flight

vars == <<file, pc, data, performance, frame, world, threads, overlapped>>

(***************************************************************************)
(* Python values.  A JSON document is null, a number or an insertion       *)
(* ordered dict; numbers are exact rationals n/d in lowest terms.          *)
(***************************************************************************)
PyNone == [t |-> "None"]

RECURSIVE GCD(_, _)
GCD(a, b) == IF b = 0 THEN a ELSE GCD(b, a % b)

Abs(n) == IF n < 0 THEN -n ELSE n

Rat(n, d) ==
    LET g == GCD(Abs(n), d)
    IN  [t |-> "num", n |-> n \div g, d |-> d \div g]

Num(n) == Rat(n, 1)

Dict(items) == [t |-> "dict", items |-> items]

Raised(exc) == [t |-> "raise", exc |-> exc]

IsRaised(v) == v.t = "raise"

\* bool(v): None, 0 and the empty dict are falsy
Truthy(v) ==
    CASE v.t = "None" -> FALSE
      [] v.t = "num"  -> v.n # 0
      [] v.t = "dict" -> v.items # <<>>
      [] OTHER        -> TRUE

HasKey(items, k) == \E i \in 1..Len(items) : items[i].k = k

Lookup(items, k) == items[CHOOSE i \in 1..Len(items) : items[i].k = k].v

\* obj[k] in place of obj.get(k, default): KeyError for a missing key
get_keyerror(obj, k, default) ==
    IF IsRaised(obj) THEN obj
    ELSE IF obj.t # "dict" THEN Raised("AttributeError")
    ELSE IF HasKey(obj.items, k) THEN Lookup(obj.items, k) ELSE Raised("KeyError")

\* obj.get(k, default); AttributeError when obj is not a dict
get(obj, k, default) ==
    IF IsRaised(obj) THEN obj
    ELSE IF obj.t # "dict" THEN Raised("AttributeError")
    ELSE IF HasKey(obj.items, k) THEN Lookup(obj.items, k) ELSE default

\* d[k] = v on an insertion-ordered dict: a present key keeps its position
setitem(items, k, v) ==
    IF HasKey(items, k)
    THEN [i \in 1..Len(items) |-> IF items[i].k = k THEN [k |-> k, v |-> v] ELSE items[i]]
    ELSE Append(items, [k |-> k, v |-> v])

\* x // k in place of x / k
truediv_floor(x, k) ==
    IF IsRaised(x) THEN x
    ELSE IF x.t # "num" THEN Raised("TypeError")
    ELSE Num(x.n \div (x.d * k))

\* x / k
truediv(x, k) ==
    IF IsRaised(x) THEN x
    ELSE IF x.t # "num" THEN Raised("TypeError")
    ELSE Rat(x.n, x.d * k)

\* x * k
mul(x, k) ==
    IF IsRaised(x) THEN x
    ELSE IF x.t # "num" THEN Raised("TypeError")
    ELSE Rat(x.n * k, x.d)

\* k - x
rsub(k, x) ==
    IF IsRaised(x) THEN x
    ELSE IF x.t # "num" THEN Raised("TypeError")
    ELSE Rat(k * x.d - x.n, x.d)

\* a > b for numbers (denominators are positive)
Greater(a, b) == a.n * b.d > b.n * a.d

(***************************************************************************)
(* str.startswith and str.replace                                          *)
(***************************************************************************)
startswith(s, p) == Len(s) >= Len(p) /\ SubSeq(s, 1, Len(p)) = p

RECURSIVE replace(_, _, _)
replace(s, old, new) ==
    IF Len(s) < Len(old) THEN s
    ELSE IF SubSeq(s, 1, Len(old)) = old
         THEN new \o replace(SubSeq(s, Len(old) + 1, Len(s)), old, new)
         ELSE SubSeq(s, 1, 1) \o replace(SubSeq(s, 2, Len(s)), old, new)

(***************************************************************************)
(* extract_performance_data                                                *)
(***************************************************************************)
PREFIX == "latency_ms_"

EmptyDict == Dict(<<>>)

\* lines 27-32: the metrics mapping and the five `values` mappings
OverallSources(doc) ==
    LET metrics == get(doc, "metrics", EmptyDict)
    IN  [metrics       |-> metrics,
         http_duration |-> get(get(metrics, "http_req_duration", EmptyDict), "values", EmptyDict),
         http_reqs     |-> get(get(metrics, "http_reqs", EmptyDict), "values", EmptyDict),
         http_failed   |-> get(get(metrics, "http_req_failed", EmptyDict), "values", EmptyDict),
         vus           |-> get(get(metrics, "vus", EmptyDict), "values", EmptyDict),
         checks        |-> get(get(metrics, "checks", EmptyDict), "values", EmptyDict)]

SourceOrder == <<"metrics", "http_duration", "http_reqs", "http_failed", "vus", "checks">>

\* the first exception a record of evaluated expressions holds, in evaluation order
FirstRaised(rec, order) ==
    IF \E i \in 1..Len(order) : IsRaised(rec[order[i]])
    THEN rec[order[CHOOSE i \in 1..Len(order) :
                 /\ IsRaised(rec[order[i]])
                 /\ \A j \in 1..(i - 1) : ~IsRaised(rec[order[j]])]]
    ELSE PyNone

\* lines 41-49: the seven fields of one endpoint
EndpointRecord(values) ==
    [avg |-> get(values, "avg", Num(0)),
     min |-> get(values, "min", Num(0)),
     med |-> get(values, "med", Num(0)),
     p90 |-> get(values, "p(90)", Num(0)),
     p95 |-> get(values, "p(95)", Num(0)),
     p99 |-> get(values, "p(99)", Num(0)),
     max |-> get(values, "max", Num(0))]

\* the endpoint name of a metric name (line 38)
endpoint_of(metric_name) == replace(metric_name, PREFIX, "")

\* lines 37-49: one iteration of the loop over metrics.items()
\* without the `if values:` test
ScanStep_keepempty(endpoint_metrics, item) ==
    IF ~startswith(item.k, PREFIX) THEN endpoint_metrics
    ELSE LET values == get(item.v, "values", EmptyDict)
         IN  IF IsRaised(values) THEN values
             ELSE IF values.t # "dict" THEN Raised("AttributeError")
             ELSE Dict(setitem(endpoint_metrics.items, endpoint_of(item.k),
                               EndpointRecord(values)))

ScanStep(endpoint_metrics, item) ==
    IF ~startswith(item.k, PREFIX) THEN endpoint_metrics
    ELSE LET values == get(item.v, "values", EmptyDict)
         IN  IF IsRaised(values) THEN values
             ELSE IF ~Truthy(values) THEN endpoint_metrics
             ELSE IF values.t # "dict" THEN Raised("AttributeError")
             ELSE Dict(setitem(endpoint_metrics.items, endpoint_of(item.k),
                               EndpointRecord(values)))

\* lines 35-49: the whole loop, from item i on
RECURSIVE ScanFrom(_, _, _)
ScanFrom(items, i, endpoint_metrics) ==
    IF i > Len(items) \/ IsRaised(endpoint_metrics) THEN endpoint_metrics
    ELSE ScanFrom(items, i + 1, ScanStep(endpoint_metrics, items[i]))

MsPerSecond == 1000

OverallOrder ==
    <<"p50", "p90", "p95", "p99", "avg", "min", "max", "total_requests",
      "requests_per_sec", "error_rate", "duration_s", "vus", "vus_max",
      "checks_pass_rate", "checks_total", "checks_passed", "checks_failed">>

\* error_rate read from http_reqs in place of http_req_failed
OverallRecord_swapped(doc, S) ==
    [p50              |-> get(S.http_duration, "med", Num(0)),
     p90              |-> get(S.http_duration, "p(90)", Num(0)),
     p95              |-> get(S.http_duration, "p(95)", Num(0)),
     p99              |-> get(S.http_duration, "p(99)", Num(0)),
     avg              |-> get(S.http_duration, "avg", Num(0)),
     min              |-> get(S.http_duration, "min", Num(0)),
     max              |-> get(S.http_duration, "max", Num(0)),
     total_requests   |-> get(S.http_reqs, "count", Num(0)),
     requests_per_sec |-> get(S.http_reqs, "rate", Num(0)),
     error_rate       |-> get(S.http_reqs, "rate", Num(0)),
     duration_s       |-> truediv(get(get(doc, "state", EmptyDict), "testRunDurationMs", Num(0)),
                                  MsPerSecond),
     vus              |-> get(S.vus, "value", Num(0)),
     vus_max          |-> get(S.vus, "max", Num(0)),
     checks_pass_rate |-> get(S.checks, "rate", Num(0)),
     checks_total     |-> get(S.checks, "count", Num(0)),
     checks_passed    |-> get(S.checks, "passes", Num(0)),
     checks_failed    |-> get(S.checks, "fails", Num(0))]

\* lines 52-70: the overall record
OverallRecord(doc, S) ==
    [p50              |-> get(S.http_duration, "med", Num(0)),
     p90              |-> get(S.http_duration, "p(90)", Num(0)),
     p95              |-> get(S.http_duration, "p(95)", Num(0)),
     p99              |-> get(S.http_duration, "p(99)", Num(0)),
     avg              |-> get(S.http_duration, "avg", Num(0)),
     min              |-> get(S.http_duration, "min", Num(0)),
     max              |-> get(S.http_duration, "max", Num(0)),
     total_requests   |-> get(S.http_reqs, "count", Num(0)),
     requests_per_sec |-> get(S.http_reqs, "rate", Num(0)),
     error_rate       |-> get(S.http_failed, "rate", Num(0)),
     duration_s       |-> truediv(get(get(doc, "state", EmptyDict), "testRunDurationMs", Num(0)),
                                  MsPerSecond),
     vus              |-> get(S.vus, "value", Num(0)),
     vus_max          |-> get(S.vus, "max", Num(0)),
     checks_pass_rate |-> get(S.checks, "rate", Num(0)),
     checks_total     |-> get(S.checks, "count", Num(0)),
     checks_passed    |-> get(S.checks, "passes", Num(0)),
     checks_failed    |-> get(S.checks, "fails", Num(0))]

\* lines 51-72: the returned value, or the exception building it raises
BuildResult(doc, S, endpoint_metrics) ==
    LET overall == OverallRecord(doc, S)
        exc     == FirstRaised(overall, OverallOrder)
    IN  IF IsRaised(exc) THEN exc
        ELSE [t |-> "perf", overall |-> overall, endpoints |-> endpoint_metrics.items]

\* `if data is None` in place of `if not data`
NoData_isnone(doc) == doc.t = "None"

\* line 24: `if not data`
NoData(doc) == ~Truthy(doc)

\* the function as a whole: None, a raised exception, or the stats
extract_performance_data(doc) ==
    IF NoData(doc) THEN PyNone
    ELSE LET S   == OverallSources(doc)
             exc == FirstRaised(S, SourceOrder)
         IN  IF IsRaised(exc) THEN exc
             ELSE LET endpoint_metrics == ScanFrom(S.metrics.items, 1, EmptyDict)
                  IN  IF IsRaised(endpoint_metrics) THEN endpoint_metrics
                      ELSE BuildResult(doc, S, endpoint_metrics)

(***************************************************************************)
(* Documents the runs start from                                           *)
(***************************************************************************)
\* the number of metrics of the documents the extractor is run on
MaxMetrics == 3

Absent == [t |-> "absent"]

\* a dict of the given items, the absent ones left out
MkDict(pairs) == Dict(SelectSeq(pairs, LAMBDA p : p.v.t # "absent"))

Fields ==
    <<"avg", "min", "med", "p(90)", "p(95)", "p(99)", "max",
      "rate", "count", "value", "passes", "fails">>

NamedMetrics == <<"http_req_duration", "http_reqs", "http_req_failed", "vus", "checks">>

\* a number that tells which field of which metric it was read from
Code(mi, fi) == 100 * mi + fi

\* the `values` of metric mi holding exactly the fields F
ValuesOf(mi, F) ==
    MkDict([i \in 1..Len(Fields) |->
              [k |-> Fields[i], v |-> IF Fields[i] \in F THEN Num(Code(mi, i)) ELSE Absent]])

AllFields == {Fields[i] : i \in 1..Len(Fields)}

WithValues(values) == Dict(<<[k |-> "values", v |-> values]>>)

\* what a metric's entry may be: absent, null, without `values`, `values` null or
\* empty, one field only, all fields but one, all fields
EntryShapes(mi) ==
    {Absent, PyNone, EmptyDict, WithValues(PyNone), WithValues(EmptyDict),
     WithValues(ValuesOf(mi, AllFields))}
    \cup {WithValues(ValuesOf(mi, {f})) : f \in AllFields}
    \cup {WithValues(ValuesOf(mi, AllFields \ {f})) : f \in AllFields}

StateShapes ==
    {Absent, PyNone, EmptyDict,
     Dict(<<[k |-> "testRunDurationMs", v |-> PyNone]>>),
     Dict(<<[k |-> "testRunDurationMs", v |-> Num(1500)]>>),
     Dict(<<[k |-> "testRunDurationMs", v |-> Num(60000)], [k |-> "isStdOutTTY", v |-> Num(0)]>>)}

\* the five named metrics: one of them in any shape, the others all absent or all full
NamedMetricsDocs ==
    {MkDict(<<[k |-> "metrics",
               v |-> MkDict([i \in 1..Len(NamedMetrics) |->
                        [k |-> NamedMetrics[i],
                         v |-> IF i = ms[1] THEN ms[2]
                               ELSE IF full THEN WithValues(ValuesOf(i, AllFields))
                               ELSE Absent]])],
              [k |-> "state", v |-> st]>>) :
        <<ms, full, st>> \in
            (UNION {{<<i, sh>> : sh \in EntryShapes(i)} : i \in 1..Len(NamedMetrics)})
              \X BOOLEAN \X StateShapes}

\* documents without a usable `metrics` mapping, and documents that are no mapping
NoMetricsDocs ==
    {MkDict(<<[k |-> "root_group", v |-> rg], [k |-> "metrics", v |-> m],
              [k |-> "state", v |-> st]>>) :
        <<rg, m, st>> \in {Absent, EmptyDict} \X {Absent, PyNone, EmptyDict} \X StateShapes}
    \cup {PyNone, Num(0), Num(5)}

NamePool ==
    <<"latency_ms_login", "latency_ms_checkout", "latency_ms_latency_ms_login",
      "login", "http_latency_ms_cart", "latency_ms_">>

\* the entry of the pool's metric ni in shape number sh
PoolEntry(ni, sh) ==
    CASE sh = 1 -> EmptyDict
      [] sh = 2 -> WithValues(EmptyDict)
      [] OTHER  -> WithValues(Dict(<<[k |-> "p(95)", v |-> Num(200 + ni)],
                                     [k |-> "p(99)", v |-> Num(300 + ni)]>>))

PoolShapes == 1..3

RECURSIVE Ascending(_)
Ascending(T) ==
    IF T = {} THEN <<>>
    ELSE LET m == CHOOSE x \in T : \A y \in T : x <= y
         IN  <<m>> \o Ascending(T \ {m})

Reverse(seq) == [i \in 1..Len(seq) |-> seq[Len(seq) + 1 - i]]

\* up to MaxMetrics metrics of the pool, in the pool's order or the reverse, in any shape
EndpointDocs ==
    {Dict(<<[k |-> "metrics",
             v |-> Dict([i \in 1..Len(names) |->
                           [k |-> NamePool[names[i]],
                            v |-> PoolEntry(names[i], shapes[names[i]])]])]>>) :
        <<names, shapes>> \in
            UNION {{Ascending(T), Reverse(Ascending(T))} \X [T -> PoolShapes] :
                     T \in {U \in SUBSET (1..Len(NamePool)) :
                              Cardinality(U) \in 1..MaxMetrics}}}

\* one endpoint metric that is null, or whose `values` is null, a number, or lacks fields
OddEndpointDocs ==
    {Dict(<<[k |-> "metrics", v |-> Dict(<<[k |-> NamePool[1], v |-> e]>>)]>>) :
        e \in {PyNone, WithValues(PyNone), WithValues(Num(5)), WithValues(ValuesOf(1, AllFields))}
              \cup {WithValues(ValuesOf(1, {f})) : f \in AllFields}
              \cup {WithValues(ValuesOf(1, AllFields \ {f})) : f \in AllFields}}

ExtractInputs == NamedMetricsDocs \cup NoMetricsDocs \cup EndpointDocs \cup OddEndpointDocs

(***************************************************************************)
(* extract_performance_data, statement by statement                        *)
(***************************************************************************)
IdleFrame == [pc |-> "idle", idx |-> 0, S |-> OverallSources(EmptyDict),
              endpoint_metrics |-> EmptyDict]

NoWorld == [plt |-> [store |-> [id \in {} |-> 0], open |-> <<>>], files |-> {}, stdout |-> <<>>]

NoThreads == [r \in {} |-> 0]

\* lines 24-35
ExtractEnter ==
    /\ frame.pc = "call"
    /\ LET S   == OverallSources(data)
           exc == FirstRaised(S, SourceOrder)
       IN  IF NoData(data)
           THEN /\ performance' = PyNone
                /\ frame' = [frame EXCEPT !.pc = "returned"]
           ELSE IF IsRaised(exc)
           THEN /\ performance' = exc
                /\ frame' = [frame EXCEPT !.pc = "raised"]
           ELSE /\ performance' = performance
                /\ frame' = [pc |-> "scan", idx |-> 1, S |-> S, endpoint_metrics |-> EmptyDict]
    /\ UNCHANGED <<file, pc, data, world, threads, overlapped>>

\* lines 36-49, one metric
ExtractScan ==
    /\ frame.pc = "scan"
    /\ frame.idx <= Len(frame.S.metrics.items)
    /\ LET r == ScanStep(frame.endpoint_metrics, frame.S.metrics.items[frame.idx])
       IN  IF IsRaised(r)
           THEN /\ performance' = r
                /\ frame' = [frame EXCEPT !.pc = "raised"]
           ELSE /\ performance' = performance
                /\ frame' = [frame EXCEPT !.idx = @ + 1, !.endpoint_metrics = r]
    /\ UNCHANGED <<file, pc, data, world, threads, overlapped>>

\* lines 51-72
ExtractReturn ==
    /\ frame.pc = "scan"
    /\ frame.idx > Len(frame.S.metrics.items)
    /\ LET r == BuildResult(data, frame.S, frame.endpoint_metrics)
       IN  /\ performance' = r
           /\ frame' = [frame EXCEPT !.pc = IF IsRaised(r) THEN "raised" ELSE "returned"]
    /\ UNCHANGED <<file, pc, data, world, threads, overlapped>>

InitExtract ==
    /\ data \in ExtractInputs
    /\ file = [kind |-> "json", doc |-> data]
    /\ pc = "idle"
    /\ performance = PyNone
    /\ frame = [IdleFrame EXCEPT !.pc = "call"]
    /\ world = NoWorld
    /\ threads = NoThreads
    /\ overlapped = FALSE

NextExtract == ExtractEnter \/ ExtractScan \/ ExtractReturn

SpecExtract == InitExtract /\ [][NextExtract]_vars

\* the step-by-step run ends with what the function returns
ExtractAgrees ==
    frame.pc \in {"returned", "raised"} => performance = extract_performance_data(data)

(***************************************************************************)
(* matplotlib.pyplot: the figures it manages, the last one being current   *)
(***************************************************************************)
Str(x) == [t |-> "str", s |-> x]

DefaultFigsize == <<Rat(64, 10), Rat(48, 10)>>

\* the identity of the next figure made on behalf of renderer r
NewFigure(p, r) ==
    [by |-> r, k |-> Cardinality({id \in DOMAIN p.store : id.by = r}) + 1]

\* plt.figure(figsize=...) / plt.subplots(figsize=...): a new figure, made current
plt_figure(p, r, figsize) ==
    [store |-> (NewFigure(p, r) :> [figsize |-> figsize, artists |-> <<>>]) @@ p.store,
     open  |-> Append(p.open, NewFigure(p, r))]

\* plt.gcf(): the current figure, a new one when none is open
WithCurrent(p, r) == IF p.open = <<>> THEN plt_figure(p, r, DefaultFigsize) ELSE p

gcf(p, r) == WithCurrent(p, r).open[Len(WithCurrent(p, r).open)]

\* fig/ax methods: draw on the figure the caller holds
fig_draw(p, fig, artists) ==
    [p EXCEPT !.store[fig].artists = @ \o artists]

\* plt.bar, plt.title, plt.text, ...: draw on the current figure
plt_draw(p, r, artists) == fig_draw(WithCurrent(p, r), gcf(p, r), artists)

\* the figure left open
plt_close_missing(p) == p

\* plt.close(): forget the current figure
plt_close(p) ==
    IF p.open = <<>> THEN p ELSE [p EXCEPT !.open = SubSeq(@, 1, Len(@) - 1)]

(***************************************************************************)
(* The six renderers                                                       *)
(***************************************************************************)
Renderers ==
    <<"create_spike_response_times", "create_all_endpoints_comparison",
      "create_error_rate_analysis", "create_system_capacity_analysis",
      "create_response_time_distribution", "create_percentile_graph">>

RendererSet == {Renderers[i] : i \in 1..Len(Renderers)}

\* the name each renderer passes to plt.savefig
FileOf(r) ==
    CASE r = "create_spike_response_times"       -> "spike_response_times.png"
      [] r = "create_all_endpoints_comparison"   -> "complete_endpoint_performance_comparison.png"
      [] r = "create_error_rate_analysis"        -> "error_rate_analysis.png"
      [] r = "create_system_capacity_analysis"   -> "system_capacity_analysis.png"
      [] r = "create_response_time_distribution" -> "response_time_distribution_comparison.png"
      [] OTHER                                   -> "overall_percentile_graph.png"

FigsizeOf(r) ==
    CASE r = "create_spike_response_times"       -> <<Num(10), Num(6)>>
      [] r = "create_all_endpoints_comparison"   -> <<Num(16), Num(8)>>
      [] r = "create_error_rate_analysis"        -> <<Num(14), Num(6)>>
      [] r = "create_system_capacity_analysis"   -> <<Num(14), Num(10)>>
      [] r = "create_response_time_distribution" -> <<Num(12), Num(6)>>
      [] OTHER                                   -> <<Num(10), Num(6)>>

\* the renderers that draw with plt.bar/plt.plot/plt.text on the current figure; the
\* others draw on the axes plt.subplots gave them
DrawsOnCurrent(r) ==
    r \in {"create_spike_response_times", "create_response_time_distribution",
           "create_percentile_graph"}

\* sorted(..., reverse=True) is a stable ascending sort of the reversed list, reversed
less(a, b) == a.n * b.d < b.n * a.d

RECURSIVE InsertByP95(_, _)
InsertByP95(sorted, x) ==
    IF sorted = <<>> THEN <<x>>
    ELSE IF less(x.v.p95, sorted[Len(sorted)].v.p95)
         THEN Append(InsertByP95(SubSeq(sorted, 1, Len(sorted) - 1), x), sorted[Len(sorted)])
         ELSE Append(sorted, x)

RECURSIVE SortAscending(_)
SortAscending(items) ==
    IF items = <<>> THEN <<>>
    ELSE InsertByP95(SortAscending(SubSeq(items, 1, Len(items) - 1)), items[Len(items)])

\* sorted(...)[::-1] in place of reverse=True: ties come out in reverse
sorted_endpoints_flipped(endpoints) == Reverse(SortAscending(endpoints))

\* sorted(endpoints.items(), key=lambda x: x[1]['p95'], reverse=True)
sorted_endpoints(endpoints) == Reverse(SortAscending(Reverse(endpoints)))

Artist(kind, xs, ys) == [kind |-> kind, xs |-> xs, ys |-> ys]

error_rate(perf) == mul(perf.overall.error_rate, 100)

success_rate(perf) == rsub(100, error_rate(perf))

\* what each renderer draws, from the stats it extracted
Artists(r, perf) ==
    LET o == perf.overall
        ranked == sorted_endpoints(perf.endpoints)
    IN  CASE r = "create_spike_response_times" ->
               <<Artist("bar", <<"P50\n(Median)", "P90", "P95", "P99">>,
                        <<o.p50, o.p90, o.p95, o.p99>>),
                 Artist("text", <<"Total Requests", "Avg Throughput">>,
                        <<o.total_requests, o.requests_per_sec>>)>>
          [] r = "create_all_endpoints_comparison" ->
               <<Artist("bar", [i \in 1..Len(ranked) |-> replace(ranked[i].k, "_", "\n")],
                        [i \in 1..Len(ranked) |-> ranked[i].v.p95]),
                 Artist("bar", [i \in 1..Len(ranked) |-> replace(ranked[i].k, "_", "\n")],
                        [i \in 1..Len(ranked) |-> ranked[i].v.p99]),
                 Artist("title", <<"Endpoints Tested">>, <<Num(Len(perf.endpoints))>>)>>
          [] r = "create_error_rate_analysis" ->
               <<Artist("pie", <<"Success", "Errors">>, <<success_rate(perf), error_rate(perf)>>),
                 Artist("bar", <<"HTTP\nSuccess", "Checks\nPassed">>,
                        <<success_rate(perf), mul(o.checks_pass_rate, 100)>>),
                 Artist("text", <<"Total Checks", "Passed", "Failed">>,
                        <<o.checks_total, o.checks_passed, o.checks_failed>>)>>
          [] r = "create_system_capacity_analysis" ->
               <<Artist("bar", <<"Throughput">>, <<o.requests_per_sec>>),
                 Artist("bar", <<"Avg Response\nTime">>, <<o.avg>>),
                 Artist("bar", <<"P95 Response\nTime">>, <<o.p95>>),
                 Artist("bar", <<"Max VUs">>, <<o.vus_max>>),
                 Artist("suptitle", <<"Duration", "Total Requests">>,
                        <<o.duration_s, o.total_requests>>)>>
          [] r = "create_response_time_distribution" ->
               <<Artist("bar", <<"Min", "P50\n(Median)", "Avg", "P90", "P95", "P99", "Max">>,
                        <<o.min, o.p50, o.avg, o.p90, o.p95, o.p99, o.max>>)>>
          [] OTHER ->
               <<Artist("plot", <<"50", "90", "95", "99">>, <<o.p50, o.p90, o.p95, o.p99>>),
                 Artist("axhspan", <<"Tail Latency Zone (P95-P99)">>, <<o.p95, o.p99>>)>>

\* Axes.pie raises ValueError for a negative wedge size
DrawRaises(r, perf) ==
    /\ r = "create_error_rate_analysis"
    /\ \/ less(success_rate(perf), Num(0))
       \/ less(error_rate(perf), Num(0))

\* the comparison's guard without its test for no endpoints
NothingToDraw_anyendpoints(r, perf) == ~Truthy(perf)

\* the guard after extraction: `not performance` (or no endpoints, for the comparison)
NothingToDraw(r, perf) ==
    \/ ~Truthy(perf)
    \/ r = "create_all_endpoints_comparison" /\ perf.endpoints = <<>>

Confirmation(r) == [text |-> "Generated", args |-> <<Str(FileOf(r))>>]

LayoutArtist == <<Artist("tight_layout", <<>>, <<>>)>>

NewLocal == [pc |-> "begin", performance |-> PyNone, fig |-> [by |-> "", k |-> 0]]

\* one step of renderer r on document doc: extraction and guard, the new figure, the
\* drawing, tight_layout and savefig, close and the confirmation line
RenderStep(r, doc, st) ==
    LET local == st.local
        w     == st.world
    IN  CASE local.pc = "begin" ->
               LET perf == extract_performance_data(doc)
               IN  [local |-> [local EXCEPT !.performance = perf,
                                            !.pc = IF IsRaised(perf) THEN "raised"
                                                   ELSE IF NothingToDraw(r, perf) THEN "done"
                                                   ELSE "figure"],
                    world |-> w]
          [] local.pc = "figure" ->
               [local |-> [local EXCEPT !.pc = "draw", !.fig = NewFigure(w.plt, r)],
                world |-> [w EXCEPT !.plt = plt_figure(w.plt, r, FigsizeOf(r))]]
          [] local.pc = "draw" ->
               IF DrawRaises(r, local.performance)
               THEN [local |-> [local EXCEPT !.pc = "raised",
                                             !.performance = Raised("ValueError")],
                     world |-> w]
               ELSE [local |-> [local EXCEPT !.pc = "save"],
                     world |-> [w EXCEPT !.plt =
                                  IF DrawsOnCurrent(r)
                                  THEN plt_draw(w.plt, r, Artists(r, local.performance))
                                  ELSE fig_draw(w.plt, local.fig, Artists(r, local.performance))]]
          [] local.pc = "save" ->
               LET p == plt_draw(w.plt, r, LayoutArtist)
               IN  [local |-> [local EXCEPT !.pc = "close"],
                    world |-> [w EXCEPT !.plt = p,
                                        !.files = @ \cup {[by |-> r, name |-> FileOf(r),
                                                           content |-> p.store[gcf(p, r)]]}]]
          [] OTHER ->
               [local |-> [local EXCEPT !.pc = "done"],
                world |-> [w EXCEPT !.plt = plt_close(w.plt),
                                    !.stdout = Append(@, Confirmation(r))]]

Ended(local) == local.pc \in {"done", "raised"}

\* the renderer called and run to its return (or to the exception it raises)
RECURSIVE RunFrom(_, _, _)
RunFrom(r, doc, st) ==
    IF Ended(st.local) THEN st ELSE RunFrom(r, doc, RenderStep(r, doc, st))

RunRenderer(r, doc, w) == RunFrom(r, doc, [local |-> NewLocal, world |-> w])

(***************************************************************************)
(* print_performance_summary                                               *)
(***************************************************************************)
TopN == 5

Line(text, args) == [text |-> text, args |-> args]

\* lines 396-397: sorted(...)[:5]
top_endpoints_unsliced(endpoints) == sorted_endpoints(endpoints)

top_endpoints(endpoints) ==
    SubSeq(sorted_endpoints(endpoints), 1,
           IF Len(endpoints) < TopN THEN Len(endpoints) ELSE TopN)

print_performance_summary(perf) ==
    LET o   == perf.overall
        top == top_endpoints(perf.endpoints)
    IN  <<Line("SPIKE TEST PERFORMANCE SUMMARY", <<>>),
          Line("Test Configuration", <<o.duration_s, o.vus_max, o.total_requests>>),
          Line("Throughput Metrics", <<o.requests_per_sec, o.total_requests>>),
          Line("Response Time Metrics", <<o.min, o.p50, o.avg, o.p90, o.p95, o.p99, o.max>>),
          Line("Reliability Metrics",
               <<mul(o.error_rate, 100), mul(rsub(1, o.error_rate), 100),
                 mul(o.checks_pass_rate, 100), o.checks_total, o.checks_passed,
                 o.checks_failed>>),
          Line("Total Endpoints Tested", <<Num(Len(perf.endpoints))>>),
          Line("Top 5 Slowest Endpoints (P95)", <<>>)>>
        \o [i \in 1..Len(top) |->
              Line("Slowest", <<Num(i), Str(top[i].k), top[i].v.p95, top[i].v.p99>>)]
        \o <<Line("KEY INSIGHTS FOR YOUR REPORT", <<>>)>>

(***************************************************************************)
(* load_spike_data and main                                                *)
(***************************************************************************)
\* without the `except json.JSONDecodeError` clause
load_spike_data_uncaught(f) ==
    CASE f.kind = "missing" ->
           [value |-> PyNone,
            out |-> <<Line("Error: spike_results.json not found in current directory", <<>>)>>]
      [] f.kind = "malformed" ->
           [value |-> Raised("JSONDecodeError"), out |-> <<>>]
      [] f.kind = "unreadable" ->
           [value |-> Raised("PermissionError"), out |-> <<>>]
      [] OTHER ->
           [value |-> f.doc, out |-> <<>>]

\* what load_spike_data returns and prints; an exception other than the two it catches
\* leaves it
load_spike_data(f) ==
    CASE f.kind = "missing" ->
           [value |-> PyNone,
            out |-> <<Line("Error: spike_results.json not found in current directory", <<>>)>>]
      [] f.kind = "malformed" ->
           [value |-> PyNone,
            out |-> <<Line("Error: Invalid JSON format in spike_results.json", <<>>)>>]
      [] f.kind = "unreadable" ->
           [value |-> Raised("PermissionError"), out |-> <<>>]
      [] OTHER ->
           [value |-> f.doc, out |-> <<>>]

\* lines 438-444
Main_Load ==
    /\ pc = "start"
    /\ LET r == load_spike_data(file)
           out == <<Line("Loading spike test results", <<>>)>> \o r.out
       IN  IF IsRaised(r.value)
           THEN /\ pc' = "crashed"
                /\ data' = data
                /\ world' = [world EXCEPT !.stdout = @ \o out]
           ELSE /\ data' = r.value
                /\ IF ~Truthy(r.value)
                   THEN /\ pc' = "exit"
                        /\ world' = [world EXCEPT !.stdout = @ \o out \o
                                        <<Line("Failed to load spike test data", <<>>),
                                          Line("Make sure spike_results.json exists", <<>>)>>]
                   ELSE /\ pc' = "extract"
                        /\ world' = [world EXCEPT !.stdout = @ \o out]
    /\ UNCHANGED <<file, performance, frame, threads, overlapped>>

\* lines 446-452
Main_Extract ==
    /\ pc = "extract"
    /\ LET perf == extract_performance_data(data)
       IN  /\ performance' = perf
           /\ IF IsRaised(perf)
              THEN pc' = "crashed" /\ world' = world
              ELSE IF ~Truthy(perf)
              THEN /\ pc' = "exit"
                   /\ world' = [world EXCEPT !.stdout =
                                   Append(@, Line("Failed to extract performance data", <<>>))]
              ELSE /\ pc' = "render"
                   /\ world' = [world EXCEPT !.stdout =
                                   Append(@, Line("Generating spike test performance graphs", <<>>))]
    /\ UNCHANGED <<file, data, frame, threads, overlapped>>

\* the renderers main has called so far
Called == Cardinality({r \in RendererSet : threads[r].pc # "begin"})

\* lines 455-460: the next of the six calls, in main's order
Main_Render ==
    /\ pc = "render"
    /\ Called < Len(Renderers)
    /\ LET r == Renderers[Called + 1]
           run == RunRenderer(r, data, world)
       IN  /\ threads' = [threads EXCEPT ![r] = run.local]
           /\ world' = run.world
           /\ pc' = IF run.local.pc = "raised" THEN "crashed" ELSE "render"
    /\ UNCHANGED <<file, data, performance, frame, overlapped>>

\* lines 462-472
Main_Summary ==
    /\ pc = "render"
    /\ Called = Len(Renderers)
    /\ pc' = "done"
    /\ world' = [world EXCEPT !.stdout =
                    @ \o <<Line("Successfully generated 6 performance graphs", <<>>)>>
                      \o print_performance_summary(performance)]
    /\ UNCHANGED <<file, data, performance, frame, threads, overlapped>>

(***************************************************************************)
(* The runs of main                                                        *)
(***************************************************************************)
\* the number of endpoint metrics of the reports main is run on
MaxEndpoints == 6

EndpointNames ==
    <<"login", "checkout", "cart", "search", "add_to_cart", "pay", "profile", "orders",
      "reviews", "wishlist">>

P95Values == {200, 500}

Item(k, v) == [k |-> k, v |-> v]

\* the five named metrics of a k6 summary, with the given failure rate
NamedItems(rate) ==
    <<Item("http_req_duration",
           WithValues(Dict(<<Item("avg", Num(210)), Item("min", Num(3)), Item("med", Num(120)),
                             Item("max", Num(2000)), Item("p(90)", Num(300)),
                             Item("p(95)", Num(450)), Item("p(99)", Num(900))>>))),
      Item("http_reqs", WithValues(Dict(<<Item("count", Num(10000)),
                                          Item("rate", Rat(555, 10))>>))),
      Item("http_req_failed", WithValues(Dict(<<Item("rate", rate)>>))),
      Item("vus", WithValues(Dict(<<Item("value", Num(1)), Item("max", Num(100))>>))),
      Item("checks", WithValues(Dict(<<Item("passes", Num(95)), Item("fails", Num(5)),
                                       Item("count", Num(100)), Item("rate", Rat(95, 100))>>)))>>

\* the latency metric of endpoint number e with the given P95
EndpointItem(name, e, p95) ==
    Item(name, WithValues(Dict(<<Item("p(95)", Num(p95)), Item("p(99)", Num(1000 + e))>>)))

Report(metrics) ==
    Dict(<<Item("metrics", Dict(metrics)),
           Item("state", Dict(<<Item("testRunDurationMs", Num(90500))>>))>>)

\* reports with up to MaxEndpoints endpoints, scanned in either order, any P95 each
EndpointReports ==
    {Report(NamedItems(Num(0)) \o
            [i \in 1..Len(order) |->
               EndpointItem(PREFIX \o EndpointNames[order[i]], order[i], p95[order[i]])]) :
        <<order, p95>> \in
            UNION {{Ascending(1..n), Reverse(Ascending(1..n))} \X [1..n -> P95Values] :
                     n \in 0..MaxEndpoints}}

\* reports with any failure rate, in and out of [0, 1]
RateReports ==
    {Report(NamedItems(rate) \o eps) :
        <<rate, eps>> \in {Num(0), Rat(1, 2), Num(1), Num(2), Rat(-1, 10)}
                          \X {<<>>, <<EndpointItem("latency_ms_login", 1, 200),
                                      EndpointItem("latency_ms_checkout", 2, 500)>>}}

\* documents that are no report, a report with no metric at all, metrics two of which
\* name the same endpoint
OtherDocuments ==
    {PyNone, EmptyDict, Num(5), Dict(<<Item("state", EmptyDict)>>),
     Report(<<EndpointItem("latency_ms_login", 1, 500),
              EndpointItem("latency_ms_checkout", 2, 500),
              EndpointItem("latency_ms_latency_ms_login", 3, 500)>>)}

Files ==
    {[kind |-> k, doc |-> PyNone] : k \in {"missing", "malformed", "unreadable"}}
    \cup {[kind |-> "json", doc |-> d] :
             d \in EndpointReports \cup RateReports \cup OtherDocuments}

NotCalled == [r \in RendererSet |-> NewLocal]

Init ==
    /\ file \in Files
    /\ pc = "start"
    /\ data = PyNone
    /\ performance = PyNone
    /\ frame = IdleFrame
    /\ world = NoWorld
    /\ threads = NotCalled
    /\ overlapped = FALSE

Next == Main_Load \/ Main_Extract \/ Main_Render \/ Main_Summary

Spec == Init /\ [][Next]_vars

Terminated == pc \in {"exit", "done", "crashed"}

(***************************************************************************)
(* The renderers run by a pool of threads, in any order                    *)
(***************************************************************************)
\* the number of renderers one run of the pool calls, all of which may run at once
MaxCalls == 2

InFlight(r) == threads[r].pc \in {"figure", "draw", "save", "close"}

Thread_Step(r, at) ==
    /\ threads[r].pc = at
    /\ LET s == RenderStep(r, data, [local |-> threads[r], world |-> world])
       IN  threads' = [threads EXCEPT ![r] = s.local] /\ world' = s.world
    /\ UNCHANGED <<file, pc, data, performance, frame>>

\* a free thread of the pool calls renderer r: extraction and guard
Thread_Begin(r) ==
    /\ Called < MaxCalls
    /\ Thread_Step(r, "begin")
    /\ overlapped' = (overlapped \/ \E q \in RendererSet : InFlight(q))

Thread_Figure(r) == Thread_Step(r, "figure") /\ UNCHANGED overlapped

Thread_Draw(r) == Thread_Step(r, "draw") /\ UNCHANGED overlapped

Thread_Save(r) == Thread_Step(r, "save") /\ UNCHANGED overlapped

Thread_Close(r) == Thread_Step(r, "close") /\ UNCHANGED overlapped

\* the report the pool's renderers are given
ParallelReports ==
    {Report(NamedItems(Num(0)) \o <<EndpointItem("latency_ms_login", 1, 200),
                                     EndpointItem("latency_ms_checkout", 2, 500)>>)}

InitParallel ==
    /\ data \in ParallelReports
    /\ file = [kind |-> "json", doc |-> data]
    /\ pc = "idle"
    /\ performance = PyNone
    /\ frame = IdleFrame
    /\ world = NoWorld
    /\ threads = NotCalled
    /\ overlapped = FALSE

NextParallel ==
    \E r \in RendererSet :
       \/ Thread_Begin(r)
       \/ Thread_Figure(r)
       \/ Thread_Draw(r)
       \/ Thread_Save(r)
       \/ Thread_Close(r)

SpecParallel == InitParallel /\ [][NextParallel]_vars

(***************************************************************************)
(* Reading a document by path, for stating what the extractor must return  *)
(***************************************************************************)
RECURSIVE AtPath(_, _)
AtPath(v, path) ==
    IF path = <<>> THEN v
    ELSE IF v.t = "dict" /\ HasKey(v.items, Head(path))
         THEN AtPath(Lookup(v.items, Head(path)), Tail(path))
         ELSE Absent

Present(v, path) == AtPath(v, path).t # "absent"

\* the metric and the field of its `values` each Overall Stats field is named after
OverallSourceOf ==
    [p50              |-> <<"http_req_duration", "med">>,
     p90              |-> <<"http_req_duration", "p(90)">>,
     p95              |-> <<"http_req_duration", "p(95)">>,
     p99              |-> <<"http_req_duration", "p(99)">>,
     avg              |-> <<"http_req_duration", "avg">>,
     min              |-> <<"http_req_duration", "min">>,
     max              |-> <<"http_req_duration", "max">>,
     total_requests   |-> <<"http_reqs", "count">>,
     requests_per_sec |-> <<"http_reqs", "rate">>,
     error_rate       |-> <<"http_req_failed", "rate">>,
     vus              |-> <<"vus", "value">>,
     vus_max          |-> <<"vus", "max">>,
     checks_pass_rate |-> <<"checks", "rate">>,
     checks_total     |-> <<"checks", "count">>,
     checks_passed    |-> <<"checks", "passes">>,
     checks_failed    |-> <<"checks", "fails">>]

MetricFields == DOMAIN OverallSourceOf

SourcePath(f) == <<"metrics", OverallSourceOf[f][1], "values", OverallSourceOf[f][2]>>

EndpointSourceOf ==
    [avg |-> "avg", min |-> "min", med |-> "med", p90 |-> "p(90)", p95 |-> "p(95)",
     p99 |-> "p(99)", max |-> "max"]

IsZero(v) == v = Num(0)

Finished == frame.pc \in {"returned", "raised"}

ReturnedStats == frame.pc = "returned" /\ performance.t = "perf"

\* a mapping whose optional keys, where present, hold what the format says they hold
AllOf(items, P(_)) == \A i \in 1..Len(items) : P(items[i])

IsNumItem(it) == it.v.t = "num"

IsMetricEntry(it) ==
    /\ it.v.t = "dict"
    /\ AllOf(it.v.items, LAMBDA x : x.k = "values" =>
                                      x.v.t = "dict" /\ AllOf(x.v.items, IsNumItem))

WellTyped(doc) ==
    /\ doc.t = "dict"
    /\ AllOf(doc.items, LAMBDA it :
          /\ it.k = "metrics" => it.v.t = "dict" /\ AllOf(it.v.items, IsMetricEntry)
          /\ it.k = "state" => it.v.t = "dict" /\ AllOf(it.v.items, IsNumItem))

\* the metrics of the document, as scanned
MetricItems(doc) ==
    IF Present(doc, <<"metrics">>) /\ AtPath(doc, <<"metrics">>).t = "dict"
    THEN AtPath(doc, <<"metrics">>).items ELSE <<>>

\* the metric has a `values` mapping with at least one field
HasNonEmptyValues(item) ==
    /\ Present(item.v, <<"values">>)
    /\ AtPath(item.v, <<"values">>).t = "dict"
    /\ AtPath(item.v, <<"values">>).items # <<>>

FieldOrZero(item, key) ==
    IF Present(item.v, <<"values", key>>) THEN AtPath(item.v, <<"values", key>>) ELSE Num(0)

\* the entry holds the seven fields of the metric, 0 for each one missing
EntryIsOf(entry, item) ==
    \A f \in DOMAIN EndpointSourceOf : entry.v[f] = FieldOrZero(item, EndpointSourceOf[f])

(***************************************************************************)
(* C1 as stated: every mapping without a `metrics` key, the empty one      *)
(* included, yields stats whose Overall Stats fields are all 0 and whose   *)
(* Endpoint Stats is empty, and None is returned only for an absent input. *)
(***************************************************************************)
C1_AsStated ==
    Finished =>
      /\ (data.t = "dict" /\ ~HasKey(data.items, "metrics")) =>
            /\ ReturnedStats
            /\ \A f \in DOMAIN performance.overall : IsZero(performance.overall[f])
            /\ performance.endpoints = <<>>
      /\ (frame.pc = "returned" /\ performance = PyNone) => data = PyNone

\* `state`, when present, is a mapping whose testRunDurationMs, when present, is a number
StateWellTyped(doc) ==
    /\ Present(doc, <<"state">>) => AtPath(doc, <<"state">>).t = "dict"
    /\ Present(doc, <<"state", "testRunDurationMs">>) =>
          AtPath(doc, <<"state", "testRunDurationMs">>).t = "num"

(***************************************************************************)
(* C1, amended: every non-empty mapping without a `metrics` key (its       *)
(* `state` well typed) yields stats whose metric-derived Overall Stats     *)
(* fields are all 0, whose duration_s times 1000 is testRunDurationMs (0   *)
(* when absent) and whose Endpoint Stats is empty; None is returned        *)
(* exactly for the falsy inputs: None, the empty mapping, 0.               *)
(***************************************************************************)
C1_NoMetrics ==
    Finished =>
      /\ (data.t = "dict" /\ data.items # <<>> /\ ~HasKey(data.items, "metrics")
            /\ StateWellTyped(data)) =>
            /\ ReturnedStats
            /\ \A f \in MetricFields : IsZero(performance.overall[f])
            /\ mul(performance.overall.duration_s, 1000) =
                  (IF Present(data, <<"state", "testRunDurationMs">>)
                   THEN AtPath(data, <<"state", "testRunDurationMs">>) ELSE Num(0))
            /\ performance.endpoints = <<>>
      /\ (frame.pc = "returned" /\ performance = PyNone) <=>
            (data = PyNone \/ data = EmptyDict \/ data = Num(0))

C1_Witness ==
    /\ ReturnedStats
    /\ ~HasKey(data.items, "metrics")
    /\ Present(data, <<"state", "testRunDurationMs">>)
    /\ ~IsZero(performance.overall.duration_s)
    /\ IsZero(performance.overall.p95)

(***************************************************************************)
(* C3: every Endpoint Stats entry comes from a metric whose name begins    *)
(* with latency_ms_ and whose `values` is non-empty; scanning a metric     *)
(* without the prefix, or a prefixed one whose `values` is empty or        *)
(* absent, leaves Endpoint Stats as it was.                                *)
(***************************************************************************)
Scanned == frame.S.metrics.items[frame.idx]

C3_EntriesFromPrefixed ==
    /\ [](frame.pc = "scan" =>
            \A i \in 1..Len(frame.endpoint_metrics.items) :
               \E j \in 1..(frame.idx - 1) :
                  LET item == frame.S.metrics.items[j]
                  IN  /\ startswith(item.k, PREFIX)
                      /\ HasNonEmptyValues(item)
                      /\ EntryIsOf(frame.endpoint_metrics.items[i], item))
    /\ [][(frame.pc = "scan" /\ frame'.pc = "scan" /\ frame'.idx = frame.idx + 1
             /\ (~startswith(Scanned.k, PREFIX) \/ ~HasNonEmptyValues(Scanned)))
          => frame'.endpoint_metrics = frame.endpoint_metrics]_vars
    /\ [](ReturnedStats => performance.endpoints = frame.endpoint_metrics.items)

C3_Witness ==
    /\ ReturnedStats
    /\ Len(performance.endpoints) = 1
    /\ \E i, j, k \in 1..Len(MetricItems(data)) :
          /\ ~startswith(MetricItems(data)[i].k, PREFIX)
          /\ HasNonEmptyValues(MetricItems(data)[i])
          /\ startswith(MetricItems(data)[j].k, PREFIX)
          /\ ~HasNonEmptyValues(MetricItems(data)[j])
          /\ startswith(MetricItems(data)[k].k, PREFIX)
          /\ HasNonEmptyValues(MetricItems(data)[k])

(***************************************************************************)
(* C4 as stated: each metric named latency_ms_<rest> with non-empty        *)
(* `values` has the Endpoint Stats entry <rest> (only the leading prefix   *)
(* stripped), and there are as many endpoints as such metrics.             *)
(***************************************************************************)
EndpointMetricIndexes(doc) ==
    {i \in 1..Len(MetricItems(doc)) :
        startswith(MetricItems(doc)[i].k, PREFIX) /\ HasNonEmptyValues(MetricItems(doc)[i])}

WithoutLeadingPrefix(name) == SubSeq(name, Len(PREFIX) + 1, Len(name))

C4_LeadingPrefixStripped ==
    (ReturnedStats /\ WellTyped(data)) =>
      /\ \A i \in EndpointMetricIndexes(data) :
            HasKey(performance.endpoints, WithoutLeadingPrefix(MetricItems(data)[i].k))
      /\ Len(performance.endpoints) = Cardinality(EndpointMetricIndexes(data))

(***************************************************************************)
(* C7: on a mapping in which any of the optional keys is absent the        *)
(* extractor does not raise, and every Overall Stats or endpoint field     *)
(* whose source is absent is 0.                                            *)
(***************************************************************************)
C7_AbsentKeysDefault ==
    (Finished /\ WellTyped(data)) =>
      /\ frame.pc = "returned"
      /\ performance.t = "perf" =>
            /\ \A f \in MetricFields :
                  ~Present(data, SourcePath(f)) => IsZero(performance.overall[f])
            /\ ~Present(data, <<"state", "testRunDurationMs">>) =>
                  IsZero(performance.overall.duration_s)
            /\ \A i \in 1..Len(performance.endpoints) : \A f \in DOMAIN EndpointSourceOf :
                  LET v == performance.endpoints[i].v[f]
                  IN  ~IsZero(v) =>
                        \E j \in EndpointMetricIndexes(data) :
                           /\ Present(MetricItems(data)[j].v, <<"values", EndpointSourceOf[f]>>)
                           /\ AtPath(MetricItems(data)[j].v, <<"values", EndpointSourceOf[f]>>) = v

C7_Witness ==
    /\ ReturnedStats
    /\ WellTyped(data)
    /\ ~Present(data, <<"state">>)
    /\ Present(data, <<"metrics", "http_req_duration", "values", "p(95)">>)
    /\ ~Present(data, <<"metrics", "http_req_duration", "values", "med">>)
    /\ ~Present(data, <<"metrics", "vus">>)
    /\ IsZero(performance.overall.p50) /\ ~IsZero(performance.overall.p95)

(***************************************************************************)
(* C8: each Overall Stats field equals its named source field when that is *)
(* present, and a field that is not 0 holds its own source's value, never  *)
(* another metric's.                                                       *)
(***************************************************************************)
C8_FieldsFromNamedSources ==
    ReturnedStats =>
      \A f \in MetricFields :
         /\ Present(data, SourcePath(f)) => performance.overall[f] = AtPath(data, SourcePath(f))
         /\ ~IsZero(performance.overall[f]) =>
               Present(data, SourcePath(f)) /\ performance.overall[f] = AtPath(data, SourcePath(f))

C8_Witness ==
    /\ ReturnedStats
    /\ \A f \in MetricFields : Present(data, SourcePath(f)) /\ ~IsZero(performance.overall[f])
    /\ performance.overall.error_rate # performance.overall.requests_per_sec

(***************************************************************************)
(* What main and the renderers leave behind                                *)
(***************************************************************************)
\* the artifact each renderer is to write
ExpectedFileOf ==
    [create_spike_response_times       |-> "spike_response_times.png",
     create_all_endpoints_comparison   |-> "complete_endpoint_performance_comparison.png",
     create_error_rate_analysis        |-> "error_rate_analysis.png",
     create_system_capacity_analysis   |-> "system_capacity_analysis.png",
     create_response_time_distribution |-> "response_time_distribution_comparison.png",
     create_percentile_graph           |-> "overall_percentile_graph.png"]

WritesBy(r) == {w \in world.files : w.by = r}

LinesWith(text) == SelectSeq(world.stdout, LAMBDA l : l.text = text)

Confirmed == [i \in 1..Len(LinesWith("Generated")) |-> LinesWith("Generated")[i].args[1].s]

IndexOfLine(text) == CHOOSE i \in 1..Len(world.stdout) : world.stdout[i].text = text

SummaryPrinted == Len(LinesWith("SPIKE TEST PERFORMANCE SUMMARY")) = 1

\* the summary is printed, and after every confirmation
SummaryPrintedLast ==
    /\ SummaryPrinted
    /\ \A i \in 1..Len(world.stdout) :
          world.stdout[i].text = "Generated" => i < IndexOfLine("SPIKE TEST PERFORMANCE SUMMARY")

(***************************************************************************)
(* C2: when spike_results.json is missing or malformed, nothing leaves the *)
(* loader: main prints the diagnostics and returns before any renderer     *)
(* runs, no artifact is written and no summary is printed.                 *)
(***************************************************************************)
C2_LoadFailureHalts ==
    file.kind \in {"missing", "malformed"} =>
      /\ pc \in {"start", "exit"}
      /\ \A r \in RendererSet : threads[r].pc = "begin"
      /\ world.files = {}
      /\ ~SummaryPrinted
      /\ pc = "exit" =>
            /\ Len(world.stdout) = 4
            /\ world.stdout[2].text =
                  (IF file.kind = "missing"
                   THEN "Error: spike_results.json not found in current directory"
                   ELSE "Error: Invalid JSON format in spike_results.json")
            /\ world.stdout[3].text = "Failed to load spike test data"

C2_Witness == pc = "exit" /\ file.kind = "malformed" /\ Len(world.stdout) = 4

(***************************************************************************)
(* C5: the ranking the endpoint comparison plots and the summary lists is  *)
(* the Endpoint Stats entries in descending P95, entries of equal P95 in   *)
(* the order they were scanned in the metrics mapping.                     *)
(***************************************************************************)
P95At(i) == performance.endpoints[i].v.p95

\* the place of entry i in the stable descending ranking
RankOf(i) ==
    1 + Cardinality({j \in 1..Len(performance.endpoints) : Greater(P95At(j), P95At(i))})
      + Cardinality({j \in 1..(i - 1) : P95At(j) = P95At(i)})

ComparisonBars(k) ==
    (CHOOSE w \in WritesBy("create_all_endpoints_comparison") : TRUE).content.artists[k]

\* the metric the scan first recorded the entry's endpoint from
FirstScanOf(i) ==
    CHOOSE j \in EndpointMetricIndexes(data) :
       /\ endpoint_of(MetricItems(data)[j].k) = performance.endpoints[i].k
       /\ \A h \in EndpointMetricIndexes(data) :
             endpoint_of(MetricItems(data)[h].k) = performance.endpoints[i].k => j <= h

C5_StableDescendingRanking ==
    pc = "done" =>
      LET n == Len(performance.endpoints)
      IN  /\ \A i, j \in 1..n : i < j => FirstScanOf(i) < FirstScanOf(j)
          /\ n > 0 =>
                /\ Len(ComparisonBars(1).xs) = n
                /\ \A i \in 1..n :
                      /\ ComparisonBars(1).xs[RankOf(i)] =
                            replace(performance.endpoints[i].k, "_", "\n")
                      /\ ComparisonBars(1).ys[RankOf(i)] = P95At(i)
                      /\ ComparisonBars(2).ys[RankOf(i)] = performance.endpoints[i].v.p99
          /\ \A i \in 1..n :
                RankOf(i) <= 5 =>
                   LinesWith("Slowest")[RankOf(i)].args =
                      <<Num(RankOf(i)), Str(performance.endpoints[i].k), P95At(i),
                        performance.endpoints[i].v.p99>>

C5_Witness ==
    /\ pc = "done"
    /\ \E i, j, k \in 1..Len(performance.endpoints) :
          /\ i < j /\ j < k
          /\ P95At(i) = P95At(k)
          /\ Greater(P95At(j), P95At(i))
          /\ RankOf(j) = 1

RateInRange(doc) ==
    LET path == <<"metrics", "http_req_failed", "values", "rate">>
    IN  Present(doc, path) =>
           ~less(AtPath(doc, path), Num(0)) /\ ~Greater(AtPath(doc, path), Num(1))

\* the renderers that have something to draw
Drawing ==
    {r \in RendererSet :
        r = "create_all_endpoints_comparison" => performance.endpoints # <<>>}

Listed == LinesWith("Slowest")

C10_SummaryListsTopFive ==
    pc = "done" =>
      LET n == Len(performance.endpoints)
      IN  /\ Len(Listed) = (IF n < 5 THEN n ELSE 5)
          /\ \A k \in 1..Len(Listed) :
                /\ Listed[k].args[1] = Num(k)
                /\ ComparisonBars(1).xs[k] = replace(Listed[k].args[2].s, "_", "\n")
                /\ ComparisonBars(1).ys[k] = Listed[k].args[3]
                /\ ComparisonBars(2).ys[k] = Listed[k].args[4]
                /\ \E i \in 1..n :
                      /\ performance.endpoints[i].k = Listed[k].args[2].s
                      /\ P95At(i) = Listed[k].args[3]
                /\ k > 1 => ~less(Listed[k - 1].args[3], Listed[k].args[3])
          /\ \A i \in 1..n :
                (\A k \in 1..Len(Listed) : Listed[k].args[2].s # performance.endpoints[i].k)
                   => ~Greater(P95At(i), Listed[Len(Listed)].args[3])

C10_Witness ==
    /\ pc = "done"
    /\ Len(performance.endpoints) > 5
    /\ Len(Listed) = 5
    /\ Len(ComparisonBars(1).xs) > 5

(***************************************************************************)
(* C9 as stated: however the renderers' steps interleave, each renderer    *)
(* writes exactly its own file with the content it writes when run alone,  *)
(* and none changes the current figure another one is working on.          *)
(***************************************************************************)
AloneContent(r) ==
    (CHOOSE w \in RunRenderer(r, data, NoWorld).world.files : TRUE).content

WritesAreOwn ==
    \A w \in world.files : w.name = ExpectedFileOf[w.by] /\ w.content = AloneContent(w.by)

\* a renderer between its new figure and its close finds its own figure current
CurrentIsOwn ==
    \A r \in RendererSet :
       threads[r].pc \in {"draw", "save", "close"} =>
          /\ world.plt.open # <<>>
          /\ world.plt.open[Len(world.plt.open)] = threads[r].fig

RunDurationMs == AtPath(data, <<"state", "testRunDurationMs">>)

C11_DurationInSeconds ==
    ReturnedStats =>
      /\ performance.overall.duration_s.t = "num"
      /\ IF RunDurationMs.t = "absent"
         THEN performance.overall.duration_s.n = 0
         ELSE /\ RunDurationMs.t = "num"
              /\ performance.overall.duration_s.n * RunDurationMs.d * 1000 =
                    RunDurationMs.n * performance.overall.duration_s.d

C11_Witness ==
    /\ ReturnedStats
    /\ Present(data, <<"metrics">>)
    /\ RunDurationMs = Num(1500)
    /\ performance.overall.duration_s = Rat(3, 2)

====
